---- MODULE Spec2Model ----
(***************************************************************************)
(* Model of braiins-os/updater/update.py: the batch firmware updater.      *)
(* main() builds the host list, then calls update_one() for each host in   *)
(* turn; update_one() opens an SSHManager session, runs 'opkg update',     *)
(* sleeps, and runs 'opkg install firmware'.                               *)
(* The password only travels from the command line to SSHManager and      *)
(* decides no branch of update.py; what the session does with it shows    *)
(* here as the results a connect or a command may have.                   *)
(***************************************************************************)
EXTENDS Integers, Sequences, FiniteSets, TLC

VARIABLES
    args,         \* the parsed command line and the batch file it names
    hosts,        \* main's local 'hosts'
    idx,          \* position (1-based) of the host the for loop is at
    error_count,  \* main's local 'error_count'
    pc,           \* where control is
    exc,          \* the exception being propagated, NoExc when none
    sessions,     \* the attempts whose SSHManager session is open
    att,          \* what the running update_one call has done so far
    outcomes,     \* one record per finished update_one call, in call order
    output,       \* the lines printed to standard output, in order
    trace,        \* the calls made for each attempt, in order
    exit          \* how the process ended, NotExited while it runs

vars == <<args, hosts, idx, error_count, pc, exc, sessions, att, outcomes,
          output, trace, exit>>

----------------------------------------------------------------------------
(* Bounds and inputs *)

MaxRows == 3

SIGHUP == 1

USERNAME == "root"

HostNames == {"dev1", "host"}

\* The rows csv.reader yields: a blank line gives the empty row.
Rows == {<<>>} \cup {<<h>> : h \in HostNames}

SeqUpTo(S, n) == UNION {[1..k -> S] : k \in 0..n}

BatchFiles ==
    {[readable |-> TRUE, rows |-> r] : r \in SeqUpTo(Rows, MaxRows)}
        \cup {[readable |-> FALSE, rows |-> <<>>]}

NoFile == [readable |-> FALSE, rows |-> <<>>]

ArgsSet ==
    {[batch |-> TRUE, file |-> f, hostname |-> "", ignore |-> i] :
        f \in BatchFiles, i \in BOOLEAN}
    \cup
    {[batch |-> FALSE, file |-> NoFile, hostname |-> h, ignore |-> i] :
        h \in HostNames, i \in BOOLEAN}

\* Exit statuses a failing remote command may report; a negative status is
\* the number of the signal that ended it.
RetCodes == {1, -SIGHUP, -15}

Captured == {"", "text"}

----------------------------------------------------------------------------
(* Exceptions *)

NoExc == [cls |-> "None", returncode |-> 0, cmd |-> "", stdout |-> "",
          stderr |-> ""]

CalledProcessError(rc, cmd, out, err) ==
    [cls |-> "CalledProcessError", returncode |-> rc, cmd |-> cmd,
     stdout |-> out, stderr |-> err]

OtherError(cls, cmd) ==
    [cls |-> cls, returncode |-> 0, cmd |-> cmd, stdout |-> "", stderr |-> ""]

KeyboardInterrupt == OtherError("KeyboardInterrupt", "")

\* The classes an exception class inherits from, itself included.
Mro(cls) ==
    CASE cls = "CalledProcessError" ->
            {"CalledProcessError", "SubprocessError", "Exception",
             "BaseException"}
      [] cls = "SSHException" -> {"SSHException", "Exception", "BaseException"}
      [] cls = "ConnectionError" ->
            {"ConnectionError", "OSError", "Exception", "BaseException"}
      [] cls = "KeyboardInterrupt" -> {"KeyboardInterrupt", "BaseException"}
      [] OTHER -> {}

IsInstance(ex, cls) == cls \in Mro(ex.cls)

\* The first except clause of a try statement that matches ex, 0 when none.
HandlerIndex(clauses, ex) ==
    IF \E k \in 1..Len(clauses) : IsInstance(ex, clauses[k])
    THEN CHOOSE k \in 1..Len(clauses) :
            /\ IsInstance(ex, clauses[k])
            /\ \A j \in 1..(k - 1) : ~IsInstance(ex, clauses[j])
    ELSE 0

----------------------------------------------------------------------------
(* SSHManager: the session capability update_one uses *)

ConnectResults ==
    {[ok |-> TRUE, exc |-> NoExc],
     [ok |-> FALSE, exc |-> OtherError("ConnectionError", "")]}

RunResults(cmd) ==
    {[ok |-> TRUE, exc |-> NoExc]}
    \cup {[ok |-> FALSE, exc |-> CalledProcessError(rc, cmd, o, e)] :
            rc \in RetCodes, o \in Captured, e \in Captured}
    \cup {[ok |-> FALSE, exc |-> OtherError("SSHException", cmd)]}

Close(s, i) == s \ {i}

----------------------------------------------------------------------------
(* Text *)

NoReason == [fmt |-> "", cmd |-> "", n |-> 0]

\* str(ex)
Str(ex) ==
    IF ex.cls = "CalledProcessError"
    THEN IF ex.returncode < 0
         THEN [fmt |-> "Command '%s' died with signal %d.", cmd |-> ex.cmd,
               n |-> -ex.returncode]
         ELSE [fmt |-> "Command '%s' returned non-zero exit status %d.",
               cmd |-> ex.cmd, n |-> ex.returncode]
    ELSE [fmt |-> ex.cls, cmd |-> ex.cmd, n |-> 0]

\* A printed line; i is the attempt that printed it.
Line(i, fmt, host, reason, data) ==
    [i |-> i, fmt |-> fmt, host |-> host, reason |-> reason, data |-> data]

----------------------------------------------------------------------------
(* Process exit *)

NotExited == [code |-> -1, msg |-> NoReason]

IntArg(n) == [t |-> "int", n |-> n, s |-> NoReason]
StrArg(s) == [t |-> "str", n |-> 0, s |-> s]
NoArg == [t |-> "none", n |-> 0, s |-> NoReason]

\* sys.exit(arg): an integer is the exit status; a string is printed to
\* standard error and the exit status is 1; no exit call leaves status 0.
SysExit(arg) ==
    CASE arg.t = "int" -> [code |-> arg.n, msg |-> NoReason]
      [] arg.t = "str" -> [code |-> 1, msg |-> arg.s]
      [] OTHER -> [code |-> 0, msg |-> NoReason]

----------------------------------------------------------------------------
(* main: building the host list *)

FileInvalid(f) == ~f.readable \/ \E k \in 1..Len(f.rows) : Len(f.rows[k]) = 0

FirstFields(f) == [k \in 1..Len(f.rows) |-> f.rows[k][1]]

SkipHeader_never(hs) == hs

SkipHeader_always(hs) == IF hs # <<>> THEN Tail(hs) ELSE hs

SkipHeader_dedup(hs) ==
    LET t == IF hs # <<>> /\ hs[1] = "host" THEN Tail(hs) ELSE hs
        Keep(k) == \A j \in 1..(k - 1) : t[j] # t[k]
        kept == {k \in 1..Len(t) : Keep(k)}
        Pick[n \in 0..Len(t)] ==
            IF n = 0 THEN <<>>
            ELSE IF n \in kept THEN Append(Pick[n - 1], t[n])
            ELSE Pick[n - 1]
    IN  Pick[Len(t)]

\* if hosts and hosts[0] == 'host': hosts = hosts[1:]
SkipHeader(hs) == IF hs # <<>> /\ hs[1] = "host" THEN Tail(hs) ELSE hs

\* What one remote command did in the running attempt.
\* st is "notrun", "ok" or the class of the exception the command raised;
\* rc is the exit status a CalledProcessError carries.
NotRun == [st |-> "notrun", rc |-> 0]
Ran(r) == [st |-> IF r.ok THEN "ok" ELSE r.exc.cls, rc |-> r.exc.returncode]

NoAtt == [host |-> "", i |-> 0, connected |-> FALSE, refresh |-> NotRun,
          install |-> NotRun]

Init ==
    /\ args \in ArgsSet
    /\ hosts = <<>>
    /\ idx = 0
    /\ error_count = 0
    /\ pc = "start"
    /\ exc = NoExc
    /\ sessions = {}
    /\ att = NoAtt
    /\ outcomes = <<>>
    /\ output = <<>>
    /\ trace = <<>>
    /\ exit = NotExited

StartInvalid_partial ==
    /\ pc = "start"
    /\ args.batch
    /\ FileInvalid(args.file)
    /\ LET rows == args.file.rows
           bad == {k \in 1..Len(rows) : Len(rows[k]) = 0}
           n == IF bad = {} THEN 0
                ELSE (CHOOSE k \in bad : \A j \in bad : k <= j) - 1
       IN  hosts' = [k \in 1..n |-> rows[k][1]]
    /\ error_count' = 0
    /\ pc' = "loop"
    /\ UNCHANGED <<args, idx, exc, sessions, att, outcomes, output, trace,
                   exit>>

\* hosts = [row[0] for row in csv.reader(open(args.batch))] raises:
\* sys.exit('Invalid input file: ...')
StartInvalid ==
    /\ pc = "start"
    /\ args.batch
    /\ FileInvalid(args.file)
    /\ exit' = SysExit(StrArg([fmt |-> "Invalid input file: %s (%s)",
                               cmd |-> "", n |-> 0]))
    /\ pc' = "exited"
    /\ UNCHANGED <<args, hosts, idx, error_count, exc, sessions, att,
                   outcomes, output, trace>>

StartBatch ==
    /\ pc = "start"
    /\ args.batch
    /\ ~FileInvalid(args.file)
    /\ hosts' = SkipHeader(FirstFields(args.file))
    /\ error_count' = 0
    /\ pc' = "loop"
    /\ UNCHANGED <<args, idx, exc, sessions, att, outcomes, output, trace,
                   exit>>

StartSingle ==
    /\ pc = "start"
    /\ ~args.batch
    /\ hosts' = <<args.hostname>>
    /\ error_count' = 0
    /\ pc' = "loop"
    /\ UNCHANGED <<args, idx, exc, sessions, att, outcomes, output, trace,
                   exit>>

----------------------------------------------------------------------------
(* update_one *)

Event(ev, i) == [ev |-> ev, i |-> i]

WithExit_leak(s, i) == s

\* Leaving the with block, by return or by exception, closes the session.
WithExit(s, i) == Close(s, i)

IsHangup_positive(rc) == rc = SIGHUP

IsHangup_anySignal(rc) == rc < 0

\* ex.returncode == -signal.SIGHUP
IsHangup(rc) == rc = -SIGHUP

RefreshRaises_insideTry(r) == ~r.ok /\ ~IsHangup(r.exc.returncode)

\* ssh.run('opkg update') stands outside the try statement: whatever it
\* raises leaves update_one.
RefreshRaises(r) == ~r.ok

InstallSwallows_anyStatus(ex) == IsInstance(ex, "CalledProcessError")

\* The except clause around the install command: TRUE when it returns,
\* FALSE when it re-raises or does not match.
InstallSwallows(ex) ==
    IsInstance(ex, "CalledProcessError") /\ IsHangup(ex.returncode)

Returned(a) ==
    [host |-> a.host, i |-> a.i, connected |-> a.connected,
     refresh |-> a.refresh, install |-> a.install, result |-> "returned",
     cls |-> "None"]

Raised(a, ex) ==
    [host |-> a.host, i |-> a.i, connected |-> a.connected,
     refresh |-> a.refresh, install |-> a.install, result |-> "raised",
     cls |-> ex.cls]

\* for host in hosts: update_one(host, password) up to the with statement
ForNext ==
    /\ pc = "loop"
    /\ idx < Len(hosts)
    /\ idx' = idx + 1
    /\ att' = [NoAtt EXCEPT !.host = hosts[idx + 1], !.i = idx + 1]
    /\ output' = Append(output, Line(idx + 1, "Updating %s...",
                                     hosts[idx + 1], NoReason, ""))
    /\ trace' = Append(trace, Event("announce", idx + 1))
    /\ pc' = "connect"
    /\ UNCHANGED <<args, hosts, error_count, exc, sessions, outcomes, exit>>

ConnectOk ==
    /\ pc = "connect"
    /\ \E r \in ConnectResults :
        /\ r.ok
        /\ sessions' = sessions \cup {idx}
        /\ att' = [att EXCEPT !.connected = TRUE]
    /\ trace' = Append(trace, Event("connect", idx))
    /\ pc' = "refresh"
    /\ UNCHANGED <<args, hosts, idx, error_count, exc, outcomes, output,
                   exit>>

ConnectFail ==
    /\ pc = "connect"
    /\ \E r \in ConnectResults :
        /\ ~r.ok
        /\ exc' = r.exc
        /\ outcomes' = Append(outcomes, Raised(att, r.exc))
    /\ trace' = Append(trace, Event("connect", idx))
    /\ pc' = "except"
    /\ UNCHANGED <<args, hosts, idx, error_count, sessions, att, output,
                   exit>>

RefreshOk ==
    /\ pc = "refresh"
    /\ \E r \in RunResults("opkg update") :
        /\ ~RefreshRaises(r)
        /\ att' = [att EXCEPT !.refresh = Ran(r)]
    /\ trace' = Append(trace, Event("opkg update", idx))
    /\ pc' = "sleep"
    /\ UNCHANGED <<args, hosts, idx, error_count, exc, sessions, outcomes,
                   output, exit>>

RefreshFail ==
    /\ pc = "refresh"
    /\ \E r \in RunResults("opkg update") :
        /\ RefreshRaises(r)
        /\ att' = [att EXCEPT !.refresh = Ran(r)]
        /\ exc' = r.exc
        /\ outcomes' = Append(outcomes, Raised(att', r.exc))
    /\ sessions' = WithExit(sessions, idx)
    /\ trace' = trace \o <<Event("opkg update", idx), Event("close", idx)>>
    /\ pc' = "except"
    /\ UNCHANGED <<args, hosts, idx, error_count, output, exit>>

Sleep_skipped ==
    /\ pc = "sleep"
    /\ pc' = "install"
    /\ UNCHANGED <<args, hosts, idx, error_count, exc, sessions, att,
                   outcomes, output, trace, exit>>

\* time.sleep(1)
Sleep ==
    /\ pc = "sleep"
    /\ trace' = Append(trace, Event("sleep", idx))
    /\ pc' = "install"
    /\ UNCHANGED <<args, hosts, idx, error_count, exc, sessions, att,
                   outcomes, output, exit>>

InstallReturn ==
    /\ pc = "install"
    /\ \E r \in RunResults("opkg install firmware") :
        /\ r.ok \/ InstallSwallows(r.exc)
        /\ att' = [att EXCEPT !.install = Ran(r)]
        /\ outcomes' = Append(outcomes, Returned(att'))
    /\ sessions' = WithExit(sessions, idx)
    /\ trace' = trace \o <<Event("opkg install firmware", idx),
                           Event("close", idx)>>
    /\ pc' = "loop"
    /\ UNCHANGED <<args, hosts, idx, error_count, exc, output, exit>>

InstallRaise ==
    /\ pc = "install"
    /\ \E r \in RunResults("opkg install firmware") :
        /\ ~r.ok
        /\ ~InstallSwallows(r.exc)
        /\ att' = [att EXCEPT !.install = Ran(r)]
        /\ exc' = r.exc
        /\ outcomes' = Append(outcomes, Raised(att', r.exc))
    /\ sessions' = WithExit(sessions, idx)
    /\ trace' = trace \o <<Event("opkg install firmware", idx),
                           Event("close", idx)>>
    /\ pc' = "except"
    /\ UNCHANGED <<args, hosts, idx, error_count, output, exit>>

\* The operator presses Ctrl-C while update_one runs.
Interrupt ==
    /\ pc \in {"connect", "refresh", "sleep", "install"}
    /\ exc' = KeyboardInterrupt
    /\ outcomes' = Append(outcomes, Raised(att, KeyboardInterrupt))
    /\ sessions' = IF att.connected THEN WithExit(sessions, idx) ELSE sessions
    /\ trace' = IF att.connected THEN Append(trace, Event("close", idx))
                ELSE trace
    /\ pc' = "except"
    /\ UNCHANGED <<args, hosts, idx, error_count, att, output, exit>>

----------------------------------------------------------------------------
(* main: the except clauses of the loop, and the end of the run *)

MainHandlers_bare == <<"BaseException", "CalledProcessError">>

\* except Exception ... except CalledProcessError, in the order written
MainHandlers == <<"Exception", "CalledProcessError">>

TopHandlers == <<"KeyboardInterrupt", "Exception">>

Halts_always(ignore) == TRUE

Halts_never(ignore) == FALSE

\* if not args.ignore
Halts(ignore) == ~ignore

Counted_forgotten(count) == count

\* error_count += 1
Counted(count) == count + 1

HaltArg_one(h) == IntArg(1)

\* The argument of the sys.exit call of except clause h of main's loop.
HaltArg(h) == IF h = 1 THEN IntArg(2) ELSE IntArg(3)

\* The except clauses of the __main__ block, for what main lets through.
TopLevelArg(ex) ==
    LET t == HandlerIndex(TopHandlers, ex)
    IN  CASE t = 1 -> IntArg(1)
          [] t = 2 -> StrArg([fmt |-> "error: %s", cmd |-> ex.cls, n |-> 0])
          [] OTHER -> IntArg(1)

\* What except clause h of main's loop does with ex; h = 0 is no clause.
HandlerBody(h, ex, i, host, count, ignore) ==
    CASE h = 1 ->
            [count |-> Counted(count),
             lines |-> <<Line(i, "Updating %s failed (%s)", host, Str(ex),
                              "")>>,
             exits |-> Halts(ignore),
             arg |-> HaltArg(h)]
      [] h = 2 ->
            [count |-> Counted(count),
             lines |-> <<Line(i, "%s", "", NoReason, ex.stdout),
                         Line(i, "%s", "", NoReason, ex.stderr),
                         Line(i, "Updating %s failed (%s)", host,
                              [fmt |-> "%d", cmd |-> "",
                               n |-> ex.returncode], "")>>,
             exits |-> Halts(ignore),
             arg |-> HaltArg(h)]
      [] OTHER ->
            [count |-> count, lines |-> <<>>, exits |-> TRUE,
             arg |-> TopLevelArg(ex)]

Except ==
    /\ pc = "except"
    /\ LET b == HandlerBody(HandlerIndex(MainHandlers, exc), exc, idx,
                            hosts[idx], error_count, args.ignore)
       IN  /\ error_count' = b.count
           /\ output' = output \o b.lines
           /\ exit' = IF b.exits THEN SysExit(b.arg) ELSE exit
           /\ pc' = IF b.exits THEN "exited" ELSE "loop"
    /\ exc' = NoExc
    /\ UNCHANGED <<args, hosts, idx, sessions, att, outcomes, trace>>

FinalArg_count(count) == IF count # 0 THEN IntArg(count) ELSE NoArg

\* if error_count: sys.exit('%d errors encountered' % error_count)
FinalArg(count) ==
    IF count # 0
    THEN StrArg([fmt |-> "%d errors encountered", cmd |-> "", n |-> count])
    ELSE NoArg

ForEnd ==
    /\ pc = "loop"
    /\ idx = Len(hosts)
    /\ exit' = SysExit(FinalArg(error_count))
    /\ pc' = "exited"
    /\ UNCHANGED <<args, hosts, idx, error_count, exc, sessions, att,
                   outcomes, output, trace>>

Next ==
    \/ StartInvalid
    \/ StartBatch
    \/ StartSingle
    \/ ForNext
    \/ ConnectOk
    \/ ConnectFail
    \/ RefreshOk
    \/ RefreshFail
    \/ Sleep
    \/ InstallReturn
    \/ InstallRaise
    \/ Interrupt
    \/ Except
    \/ ForEnd

Spec == Init /\ [][Next]_vars

----------------------------------------------------------------------------
(* Vocabulary of the properties *)

\* The outcome of a finished update_one call: a normal return is Success,
\* an exception main's loop handles is Failed, an operator interrupt is
\* neither.
Outcome(o) ==
    IF o.result = "returned" THEN "Success"
    ELSE IF o.cls = "KeyboardInterrupt" THEN "Interrupted"
    ELSE "Failed"

FailedCalls == {k \in 1..Len(outcomes) : Outcome(outcomes[k]) = "Failed"}

NumFailed == Cardinality(FailedCalls)

WasInterrupted ==
    \E k \in 1..Len(outcomes) : Outcome(outcomes[k]) = "Interrupted"

\* The failure messages main printed for attempt i.
FailedLines(i) ==
    {k \in 1..Len(output) :
        output[k].i = i /\ output[k].fmt = "Updating %s failed (%s)"}

\* The attempts announced so far, in order of announcement.
AnnouncedLines ==
    {k \in 1..Len(output) : output[k].fmt = "Updating %s..."}

Ran_install(i) ==
    \E k \in 1..Len(trace) :
        trace[k].i = i /\ trace[k].ev = "opkg install firmware"

Opened(i) ==
    \E k \in 1..Len(trace) : trace[k].i = i /\ trace[k].ev = "connect"

InputInvalid == args.batch /\ FileInvalid(args.file)

\* Every handled outcome has been counted, or is about to be.
Handled(o) == pc # "except" \/ o.i # idx

HangupInstall(o) ==
    /\ o.refresh.st = "ok"
    /\ o.install.st = "CalledProcessError"
    /\ o.install.rc = -SIGHUP

OtherInstallFailure(o) ==
    /\ o.install.st \notin {"notrun", "ok"}
    /\ ~(o.install.st = "CalledProcessError" /\ o.install.rc = -SIGHUP)

\* The run ended by a host failure under haltOnError = true.
Halted == pc = "exited" /\ ~args.ignore /\ NumFailed > 0

\* The run went through the whole list and left the loop at its end.
Completed ==
    /\ pc = "exited"
    /\ ~InputInvalid
    /\ ~WasInterrupted
    /\ args.ignore \/ NumFailed = 0

AggregateMsg(n) == [fmt |-> "%d errors encountered", cmd |-> "", n |-> n]

----------------------------------------------------------------------------
(* Properties *)

\* C1: an install command that fails with the hangup-signal status after a
\* successful refresh makes the host's outcome Success: update_one returns
\* normally, main prints no failure message for that attempt and does not
\* count it (the error count never exceeds the number of Failed outcomes).
C1_HangupInstallIsSuccess ==
    /\ \A k \in 1..Len(outcomes) :
        HangupInstall(outcomes[k]) =>
            /\ Outcome(outcomes[k]) = "Success"
            /\ FailedLines(outcomes[k].i) = {}
    /\ error_count <= NumFailed

C1_Witness ==
    /\ pc = "exited"
    /\ exit.code = 0
    /\ \E k \in 1..Len(outcomes) : HangupInstall(outcomes[k])

\* C2: an install command that fails with any other status, or with a
\* transport error, makes the host's outcome Failed: the error leaves
\* update_one, and once main has handled it the failure is counted and
\* reported.
C2_OtherInstallFailureIsFailed ==
    /\ \A k \in 1..Len(outcomes) :
        OtherInstallFailure(outcomes[k]) =>
            /\ Outcome(outcomes[k]) = "Failed"
            /\ Handled(outcomes[k]) => FailedLines(outcomes[k].i) # {}
    /\ pc # "except" => error_count = NumFailed

C2_Witness ==
    /\ pc = "loop"
    /\ \E k \in 1..Len(outcomes) :
        /\ OtherInstallFailure(outcomes[k])
        /\ outcomes[k].install.rc = 1
    /\ \E k \in 1..Len(outcomes) :
        /\ OtherInstallFailure(outcomes[k])
        /\ outcomes[k].install.st = "SSHException"

\* C3: when the refresh command fails for any reason the outcome is Failed
\* and the install command is never run in that attempt.
C3_RefreshFailureSkipsInstall ==
    /\ \A k \in 1..Len(outcomes) :
        outcomes[k].refresh.st \notin {"notrun", "ok"} =>
            /\ Outcome(outcomes[k]) = "Failed"
            /\ outcomes[k].install.st = "notrun"
            /\ ~Ran_install(outcomes[k].i)
    /\ att.refresh.st \notin {"notrun", "ok"} =>
            pc \notin {"sleep", "install"}

C3_Witness ==
    /\ pc = "exited"
    /\ \E k \in 1..Len(outcomes) :
        /\ outcomes[k].refresh.st = "CalledProcessError"
        /\ outcomes[k].refresh.rc = -SIGHUP
    /\ \E k \in 1..Len(outcomes) :
        outcomes[k].refresh.st = "SSHException"

\* C4: with the ignore flag set, a run that was not interrupted ends only
\* after every host of the list has been attempted, in list order, whatever
\* the outcomes.
C4_IgnoreAttemptsEveryHost ==
    (pc = "exited" /\ args.ignore /\ ~InputInvalid /\ ~WasInterrupted) =>
        /\ Len(outcomes) = Len(hosts)
        /\ Cardinality(AnnouncedLines) = Len(hosts)
        /\ \A k \in 1..Len(hosts) :
            outcomes[k].host = hosts[k] /\ outcomes[k].i = k

C4_Witness ==
    /\ pc = "exited"
    /\ args.ignore
    /\ Len(hosts) >= 2
    /\ Len(outcomes) = Len(hosts)
    /\ Outcome(outcomes[1]) = "Failed"
    /\ outcomes[1].connected
    /\ \E k \in 2..Len(outcomes) : ~outcomes[k].connected

\* C5: without the ignore flag, once the host at position k has failed no
\* later host is announced, connected to or attempted.
C5_HaltStopsLaterHosts ==
    ~args.ignore =>
        \A k \in FailedCalls :
            /\ idx = outcomes[k].i
            /\ Len(outcomes) = k
            /\ \A j \in 1..Len(trace) : trace[j].i <= outcomes[k].i
            /\ \A j \in 1..Len(output) : output[j].i <= outcomes[k].i
            /\ pc \in {"except", "exited"}

C5_Witness ==
    /\ pc = "exited"
    /\ ~args.ignore
    /\ Len(hosts) >= 2
    /\ Len(outcomes) = 1
    /\ Outcome(outcomes[1]) = "Failed"

\* C6: no session update_one opened is still open once the call is over,
\* whichever way it ended; a session is open only while update_one is
\* inside its with block.
C6_SessionReleased ==
    /\ \A k \in 1..Len(outcomes) : outcomes[k].i \notin sessions
    /\ pc \notin {"refresh", "sleep", "install"} => sessions = {}

C6_Witness ==
    /\ pc = "exited"
    /\ \E k \in 1..Len(outcomes) :
        HangupInstall(outcomes[k]) /\ outcomes[k].connected
    /\ \E k \in 1..Len(outcomes) :
        /\ outcomes[k].connected
        /\ outcomes[k].refresh.st = "CalledProcessError"
    /\ \E k \in 1..Len(outcomes) :
        /\ outcomes[k].connected
        /\ OtherInstallFailure(outcomes[k])

\* C7: when the loop ends without halting, the error count is the number
\* of Failed outcomes; a positive count ends the process with a non-zero
\* status and the message '<count> errors encountered', a zero count ends
\* it with status 0 and no message.
C7_FinalSignalFollowsCount ==
    Completed =>
        /\ error_count = NumFailed
        /\ NumFailed > 0 =>
            exit.code # 0 /\ exit.msg = AggregateMsg(NumFailed)
        /\ NumFailed = 0 => exit.code = 0 /\ exit.msg = NoReason

C7_Witness ==
    /\ Completed
    /\ Len(hosts) = 2
    /\ OtherInstallFailure(outcomes[1])
    /\ outcomes[1].install.rc = 1
    /\ Outcome(outcomes[2]) = "Success"
    /\ exit.msg = AggregateMsg(1)

\* C8: a run halted by a command-execution failure exits with status 3, a
\* run halted by any other failure exits with status 2.
C8_HaltExitCodes ==
    Halted =>
        \A k \in FailedCalls :
            /\ outcomes[k].cls = "CalledProcessError" => exit.code = 3
            /\ outcomes[k].cls # "CalledProcessError" => exit.code = 2

\* C9: when main handles a command-execution failure, what it prints for
\* that host carries the host, the exit status and the captured stdout and
\* stderr of the failed command.
C9_FailureOutputCarriesCapture ==
    [][(pc = "except" /\ IsInstance(exc, "CalledProcessError")) =>
        LET new == SubSeq(output', Len(output) + 1, Len(output'))
        IN  /\ \E k \in 1..Len(new) :
                /\ new[k].host = hosts[idx]
                /\ new[k].reason.n \in {exc.returncode, -exc.returncode}
            /\ \E k \in 1..Len(new) :
                new[k].fmt = "%s" /\ new[k].data = exc.stdout
            /\ \E k \in 1..Len(new) :
                new[k].fmt = "%s" /\ new[k].data = exc.stderr]_vars

\* The exit statuses of the runs that went through the whole list with one
\* or more failures.
CompletedWithFailuresCodes == {1}

\* C10: a run halted on a host failure never prints the aggregate
\* '<count> errors encountered' report, and its exit status is none of the
\* statuses a run ends with that completed un-halted with failures.
C10_HaltDistinctFromAggregate ==
    /\ Halted =>
        /\ exit.msg.fmt # "%d errors encountered"
        /\ exit.code \notin CompletedWithFailuresCodes
        /\ exit.code # 0
    /\ (Completed /\ NumFailed > 0) =>
        /\ exit.code \in CompletedWithFailuresCodes
        /\ exit.msg.fmt = "%d errors encountered"

C10_Witness ==
    /\ Halted
    /\ Len(hosts) >= 2
    /\ outcomes[1].refresh.st = "CalledProcessError"

----------------------------------------------------------------------------
(* Vocabulary of the properties on the host list *)

IsPrefix(s, t) ==
    Len(s) <= Len(t) /\ \A k \in 1..Len(s) : s[k] = t[k]

\* The first field of every row of the batch file, in file order.
RowHosts == [k \in 1..Len(args.file.rows) |-> args.file.rows[k][1]]

\* The host list the input stands for: the hostname given, or the rows'
\* first fields without a first row that reads 'host'.
ExpectedHosts ==
    IF ~args.batch THEN <<args.hostname>>
    ELSE IF RowHosts # <<>> /\ RowHosts[1] = "host"
         THEN [k \in 1..(Len(RowHosts) - 1) |-> RowHosts[k + 1]]
         ELSE RowHosts

\* The hosts of the 'Updating ...' announcements, in the order printed.
Announced ==
    LET IsAnnounce(l) == l.fmt = "Updating %s..."
        lines == SelectSeq(output, IsAnnounce)
    IN  [k \in 1..Len(lines) |-> lines[k].host]

\* A batch file that is empty or holds the header row alone.
EmptyInput ==
    /\ args.batch
    /\ args.file.readable
    /\ args.file.rows \in {<<>>, << <<"host">> >>}

ConnectEvents(i) ==
    {k \in 1..Len(trace) : trace[k].ev = "connect" /\ trace[k].i = i}

----------------------------------------------------------------------------
(* Properties on the host list *)

\* C11: for an empty host list main attempts no host, opens no session,
\* counts no failure and ends with status 0 and no message, whatever the
\* ignore flag.
C11_EmptyListSucceeds ==
    EmptyInput =>
        /\ outcomes = <<>>
        /\ output = <<>>
        /\ trace = <<>>
        /\ sessions = {}
        /\ error_count = 0
        /\ pc \in {"start", "loop", "exited"}
        /\ pc = "exited" => exit = [code |-> 0, msg |-> NoReason]

C11_Witness ==
    /\ pc = "exited"
    /\ ~args.ignore
    /\ args.batch
    /\ args.file.readable
    /\ args.file.rows = << <<"host">> >>
    /\ exit.code = 0

\* C12: the hosts attempted are a prefix of the input list, in input
\* order and with repetitions kept: attempt k is for the k-th host, has its
\* own connect and its own outcome, and starts from a fresh state whatever
\* the earlier outcomes were; a run that is neither halted nor interrupted
\* attempts the whole list.
C12_AttemptsFollowInputOrder ==
    ~InputInvalid =>
        LET ann == Announced
            exp == ExpectedHosts
        IN  /\ IsPrefix(ann, exp)
            /\ Len(ann) = idx
            /\ \A k \in 1..Len(outcomes) :
                LET n == Cardinality(ConnectEvents(k))
                IN  /\ outcomes[k].i = k
                    /\ outcomes[k].host = exp[k]
                    /\ n <= 1
                    /\ Outcome(outcomes[k]) # "Interrupted" => n = 1
            /\ pc = "connect" =>
                /\ att = [NoAtt EXCEPT !.host = exp[idx], !.i = idx]
                /\ idx = Len(outcomes) + 1
                /\ sessions = {}
                /\ exc = NoExc
            /\ Completed => ann = exp

C12_Witness ==
    /\ pc = "exited"
    /\ ~InputInvalid
    /\ ExpectedHosts = <<"dev1", "dev1">>
    /\ Len(outcomes) = 2
    /\ Outcome(outcomes[1]) = "Failed"
    /\ outcomes[1].connected
    /\ Outcome(outcomes[2]) = "Success"
    /\ outcomes[2].connected

\* C13: once loaded, main's host list is the first field of every row in
\* file order, less a first row reading 'host'; a later row reading 'host'
\* and a single hostname 'host' stay in the list and are attempted.
C13_HeaderRowOnlyFirst ==
    (pc # "start" /\ ~InputInvalid) =>
        /\ hosts = ExpectedHosts
        /\ args.batch =>
            Len(hosts) = Len(args.file.rows)
                - (IF args.file.rows # <<>> /\ args.file.rows[1] = <<"host">>
                   THEN 1 ELSE 0)
        /\ ~args.batch => hosts = <<args.hostname>>
        /\ Completed =>
            /\ Len(outcomes) = Len(hosts)
            /\ \A k \in 1..Len(hosts) : outcomes[k].host = hosts[k]

C13_Witness ==
    /\ Completed
    /\ args.batch
    /\ args.file.rows = << <<"host">>, <<"dev1">>, <<"host">> >>
    /\ Announced = <<"dev1", "host">>
    /\ outcomes[2].host = "host"
    /\ outcomes[2].connected

\* C14: when the batch file is unreadable or has a row without a first
\* field, the run ends with the 'Invalid input file' message and a
\* non-zero status before anything is announced, attempted or opened, also
\* when well-formed rows come before the malformed one.
C14_InvalidInputAttemptsNothing ==
    InputInvalid =>
        /\ output = <<>>
        /\ trace = <<>>
        /\ outcomes = <<>>
        /\ sessions = {}
        /\ hosts = <<>>
        /\ pc \in {"start", "exited"}
        /\ pc = "exited" =>
            /\ exit.code # 0
            /\ exit.msg.fmt = "Invalid input file: %s (%s)"

C14_Witness ==
    /\ pc = "exited"
    /\ args.batch
    /\ args.file.readable
    /\ Len(args.file.rows) >= 2
    /\ args.file.rows[1] = <<"dev1">>
    /\ args.file.rows[2] = <<>>
    /\ exit.code = 1

----------------------------------------------------------------------------
(* Properties on interrupts, order of events and sessions *)

InterruptedCalls ==
    {k \in 1..Len(outcomes) : Outcome(outcomes[k]) = "Interrupted"}

\* C15: an operator interrupt during a host's sequence is not a per-host
\* failure, with or without the ignore flag: it is not counted, no failure
\* line is printed for it, it is the last thing attempted, the session of
\* the host in flight is closed, and the process exits with status 1.
C15_InterruptEndsRun ==
    \A k \in InterruptedCalls :
        /\ Len(outcomes) = k
        /\ idx = k
        /\ \A j \in 1..Len(trace) : trace[j].i <= k
        /\ \A j \in 1..Len(output) : output[j].i <= k
        /\ FailedLines(k) = {}
        /\ error_count = NumFailed
        /\ sessions = {}
        /\ pc \in {"except", "exited"}
        /\ pc = "exited" => exit = [code |-> 1, msg |-> NoReason]

C15_Witness ==
    /\ pc = "exited"
    /\ args.ignore
    /\ Len(hosts) = 3
    /\ Outcome(outcomes[1]) = "Failed"
    /\ Len(outcomes) = 2
    /\ Outcome(outcomes[2]) = "Interrupted"
    /\ outcomes[2].connected
    /\ exit.code = 1

\* The calls of one attempt, in the order update_one makes them.
FullOrder ==
    <<"announce", "connect", "opkg update", "sleep", "opkg install firmware">>

AttemptEvents(i) ==
    LET Mine(e) == e.i = i
    IN  SelectSeq(trace, Mine)

Calls(evs) ==
    LET NotClose(e) == e.ev # "close"
        c == SelectSeq(evs, NotClose)
    IN  [k \in 1..Len(c) |-> c[k].ev]

Closes(evs) == {k \in 1..Len(evs) : evs[k].ev = "close"}

ClosedBefore(i, k) ==
    \E m \in 1..(k - 1) : trace[m].ev = "close" /\ trace[m].i = i

\* Which call may come right after which: within an attempt the calls go
\* announce, connect, refresh, delay, install, and a close may end the
\* attempt after any call made on an open session; the next attempt starts
\* only after a close or a connect.
Follows(a, b) ==
    IF a.i = b.i
    THEN CASE a.ev = "announce" -> b.ev = "connect"
           [] a.ev = "connect" -> b.ev = "opkg update" \/ b.ev = "close"
           [] a.ev = "opkg update" -> b.ev = "sleep" \/ b.ev = "close"
           [] a.ev = "sleep" ->
                b.ev = "opkg install firmware" \/ b.ev = "close"
           [] a.ev = "opkg install firmware" -> b.ev = "close"
           [] OTHER -> FALSE
    ELSE /\ b.i = a.i + 1
         /\ b.ev = "announce"
         /\ a.ev \in {"close", "connect"}

\* C16: within an attempt the calls come in the order announce, connect,
\* refresh, delay, install, each at most once, and the close comes once and
\* last; attempts do not interleave; the install runs only after a refresh
\* that succeeded and the delay after it, and nothing comes between the
\* refresh, the delay and what follows the delay.
C16_AttemptOrder ==
    /\ trace # <<>> => trace[1] = Event("announce", 1)
    /\ \A k \in 2..Len(trace) : Follows(trace[k - 1], trace[k])
    /\ \A k \in 1..Len(outcomes) :
        /\ Ran_install(k) <=> outcomes[k].install.st # "notrun"
        /\ Ran_install(k) => outcomes[k].refresh.st = "ok"
        /\ ClosedBefore(k, Len(trace) + 1) <=> outcomes[k].connected
    /\ pc = "install" =>
        /\ att.refresh.st = "ok"
        /\ trace[Len(trace)] = Event("sleep", idx)

C16_Witness ==
    /\ pc = "exited"
    /\ Len(outcomes) = 2
    /\ Calls(AttemptEvents(1)) = FullOrder
    /\ Calls(AttemptEvents(2)) = FullOrder
    /\ Outcome(outcomes[1]) = "Failed"

\* C17: leaving interrupts aside, a host's outcome is Success exactly when
\* the session was established, the refresh ended with status 0 and the
\* install ended with status 0 or with the hangup-signal status; every
\* other ending, a hangup of the refresh included, is Failed.
C17_SuccessIffHangupOrClean ==
    \A k \in 1..Len(outcomes) :
        LET o == outcomes[k]
            clean ==
                /\ o.connected
                /\ o.refresh.st = "ok"
                /\ \/ o.install.st = "ok"
                   \/ /\ o.install.st = "CalledProcessError"
                      /\ o.install.rc = -SIGHUP
        IN  Outcome(o) # "Interrupted" =>
                /\ Outcome(o) = "Success" <=> clean
                /\ Outcome(o) = "Failed" <=> ~clean

C17_Witness ==
    /\ pc = "exited"
    /\ Len(outcomes) = 3
    /\ outcomes[1].refresh = [st |-> "CalledProcessError", rc |-> -SIGHUP]
    /\ Outcome(outcomes[1]) = "Failed"
    /\ ~outcomes[2].connected
    /\ outcomes[3].install = [st |-> "CalledProcessError", rc |-> -SIGHUP]
    /\ Outcome(outcomes[3]) = "Success"

\* C18: at most one session is open at any time, and only that of the host
\* being attempted; the session of an earlier host is closed before a later
\* host is announced or connected to, and before the process exits.
C18_OneSessionAtATime ==
    /\ Cardinality(sessions) <= 1
    /\ sessions \subseteq {idx}
    /\ \A i \in 1..Len(outcomes) :
        outcomes[i].connected =>
            \E m \in 1..Len(trace) :
                /\ trace[m].ev = "close"
                /\ trace[m].i = i
                /\ \A k \in 1..(m - 1) : trace[k].i <= i
    /\ pc = "exited" => sessions = {}

C18_Witness ==
    /\ pc = "refresh"
    /\ idx = 2
    /\ sessions = {2}
    /\ outcomes[1].connected

\* C19: exit status 1 stands for three endings: the run went through the
\* list with one or more failures, the input file was invalid, the operator
\* interrupted; a run halted on a failure ends with a status other than 0
\* and 1, and only a run without failures ends with 0.
C19_ExitStatusAmbiguous ==
    pc = "exited" =>
        /\ (Completed /\ NumFailed > 0) => exit.code = 1
        /\ InputInvalid => exit.code = 1
        /\ WasInterrupted => exit.code = 1
        /\ Halted => exit.code \notin {0, 1}
        /\ exit.code = 0 <=> (Completed /\ NumFailed = 0)

C19_Witness ==
    /\ Completed
    /\ NumFailed = 2
    /\ exit = [code |-> 1, msg |-> AggregateMsg(2)]

====
